---- MODULE Spec2Model ----
(***************************************************************************)
(* canpi-config: the Cfg structure of src/src/lib.rs.                      *)
(*                                                                         *)
(* A Cfg holds an optional ConfigHash (key -> Attribute).  The attribute   *)
(* definitions are read from a JSON file and validated against a schema;   *)
(* the INI file is read to overlay the `current` values.  Single entries   *)
(* can be read and written, the entries can be filtered by action, and the *)
(* current values can be written out as an INI file.                       *)
(*                                                                         *)
(* Two specifications share the variables and the actions:                 *)
(*   Spec      the life cycle of one Cfg: every public operation, with the *)
(*             two input files replaced between calls by a few fixtures;   *)
(*   SpecLoad  load_configuration alone, over every definition document    *)
(*             and every INI file within the bounds.                       *)
(***************************************************************************)
EXTENDS Naturals, Sequences, FiniteSets, TLC

\* ------------------------------------------------------------------ bounds

\* Number of distinct attribute keys (keys are 1..NumKeys).
NumKeys == 2

\* Largest number of key=value lines in an INI file.
MaxLines == 2

Keys == 1..NumKeys

\* The strings used as values of `current` in the input files.
Values == {"100", "101"}

\* ------------------------------------------------------- attribute model

\* enum ActionBehaviour
ActionBehaviour == {"Edit", "Display", "Hide"}

\* The field names of struct Attribute.
Fields == {"prompt", "tooltip", "current", "default", "format", "action"}

\* The fields of an Attribute other than `current`, as in the test data.
MetaSeq ==
    << [prompt |-> "CAN Id", tooltip |-> "The CAN Id", default |-> "100",
        format |-> "[0-9]{1,4}", action |-> "Display"],
       [prompt |-> "Start Event Id", tooltip |-> "The event", default |-> "1",
        format |-> "[0-9]{1,2}", action |-> "Edit"],
       [prompt |-> "", tooltip |-> "", default |-> "0",
        format |-> "[1-8]", action |-> "Hide"] >>

MkAttribute(m, c) ==
    [prompt |-> m.prompt, tooltip |-> m.tooltip, current |-> c,
     default |-> m.default, format |-> m.format, action |-> m.action]

\* struct Attribute: the attributes used as inputs.
Attribute == {MkAttribute(MetaSeq[i], c) : i \in DOMAIN MetaSeq, c \in Values}

\* Placeholder carried where an Option<&Attribute> is None.
NullAttribute ==
    [prompt |-> "", tooltip |-> "", current |-> "", default |-> "",
     format |-> "", action |-> ""]

\* type ConfigHash = HashMap<String, Attribute>
EmptyHash == [k \in {} |-> NullAttribute]

\* HashMap::insert
Insert(h, k, a) == [x \in (DOMAIN h) \cup {k} |-> IF x = k THEN a ELSE h[x]]

\* Option<ConfigHash>
NoneCfg == [some |-> FALSE, val |-> EmptyHash]
SomeCfg(h) == [some |-> TRUE, val |-> h]

\* Option<&Attribute>
NoneAttr == [some |-> FALSE, val |-> NullAttribute]
SomeAttr(a) == [some |-> TRUE, val |-> a]

\* ------------------------------------------------------- definition file

\* A JSON object is a function from some field names to strings; a JSON
\* document is a function from keys to JSON objects.
DropField(o, f) == [g \in (DOMAIN o) \ {f} |-> o[g]]

\* The entries a definition document may hold for a key: every Attribute,
\* an entry without its prompt (tests::BAD_DATA) and an entry whose action
\* is no ActionBehaviour.
BadEntries ==
    { DropField(MkAttribute(MetaSeq[1], "100"), "prompt"),
      [MkAttribute(MetaSeq[1], "100") EXCEPT !.action = "Bogus"] }

JsonEntries == Attribute \cup BadEntries

JsonDocsOver(entries) ==
    UNION { [S -> entries] : S \in SUBSET Keys }

\* The state of the file at def_path.
MissingDefn == [exists |-> FALSE, wellformed |-> FALSE, json |-> EmptyHash]
MalformedDefn == [exists |-> TRUE, wellformed |-> FALSE, json |-> EmptyHash]
DefnOf(j) == [exists |-> TRUE, wellformed |-> TRUE, json |-> j]

DefnFiles ==
    {MissingDefn, MalformedDefn} \cup {DefnOf(j) : j \in JsonDocsOver(JsonEntries)}

\* JSONSchema::is_valid against the schema of ConfigHash: every entry is an
\* object with the six required fields, its action one of the enum's values.
IsValid(j) ==
    \A k \in DOMAIN j :
        /\ Fields \subseteq DOMAIN j[k]
        /\ j[k]["action"] \in ActionBehaviour

\* serde_json::from_value::<ConfigHash>
Decodable(j) ==
    \A k \in DOMAIN j :
        /\ Fields \subseteq DOMAIN j[k]
        /\ j[k]["action"] \in ActionBehaviour

FromValue(j) == [k \in DOMAIN j |-> [f \in Fields |-> j[k][f]]]

\* The paths given as def_path: one that is valid UTF-8 and one that is not.
DefPaths == {"defn.json", "<non-utf8>"}

PathToStr(p) == IF p = "<non-utf8>" THEN "(non-utf8 path" ELSE p

\* Mutant of ReadDefnFile: the document is decoded without being validated.
ReadDefnFileUnvalidated(path, file) ==
    IF ~file.exists
    THEN [result |-> "Io", arg |-> "", decoded |-> FALSE, hash |-> EmptyHash]
    ELSE IF ~file.wellformed
    THEN [result |-> "Json", arg |-> "", decoded |-> FALSE, hash |-> EmptyHash]
    ELSE IF Decodable(file.json)
    THEN [result |-> "Ok", arg |-> "", decoded |-> TRUE,
          hash |-> FromValue(file.json)]
    ELSE [result |-> "Json", arg |-> "", decoded |-> TRUE, hash |-> EmptyHash]

\* Cfg::read_defn_file: a record [result, arg, decoded, hash].  `decoded`
\* tells whether serde_json::from_value was called.
ReadDefnFile(path, file) ==
    IF ~file.exists
    THEN [result |-> "Io", arg |-> "", decoded |-> FALSE, hash |-> EmptyHash]
    ELSE IF ~file.wellformed
    THEN [result |-> "Json", arg |-> "", decoded |-> FALSE, hash |-> EmptyHash]
    ELSE IF IsValid(file.json)
    THEN IF Decodable(file.json)
         THEN [result |-> "Ok", arg |-> "", decoded |-> TRUE,
               hash |-> FromValue(file.json)]
         ELSE [result |-> "Json", arg |-> "", decoded |-> TRUE,
               hash |-> EmptyHash]
    ELSE [result |-> "Schema", arg |-> PathToStr(path), decoded |-> FALSE,
          hash |-> EmptyHash]

\* -------------------------------------------------------------- INI file

\* Option<String> None: the general section.
GeneralSection == "<general>"

\* A key=value line under the section header in force: a line of the general
\* section, or a line under [network] (src/src/bin/ini_test.rs).
IniLines ==
    [section : {GeneralSection}, key : Keys, value : Values]
        \cup [section : {"network"}, key : Keys, value : {"101"}]

SeqsUpTo(S, n) == UNION { [1..m -> S] : m \in 0..n }

\* The state of the file at cfg_path.
MissingCfg == [exists |-> FALSE, parses |-> FALSE, lines |-> << >>]
GarbledCfg == [exists |-> TRUE, parses |-> FALSE, lines |-> << >>]
CfgOf(ls) == [exists |-> TRUE, parses |-> TRUE, lines |-> ls]

\* A line is in the general section only if no [section] header precedes it.
GeneralFirst(ls) ==
    \A i, j \in DOMAIN ls :
        (i < j /\ ls[j].section = GeneralSection) => ls[i].section = GeneralSection

IniFiles == {ls \in SeqsUpTo(IniLines, MaxLines) : GeneralFirst(ls)}

CfgFiles == {MissingCfg, GarbledCfg} \cup {CfgOf(ls) : ls \in IniFiles}

\* Ini::general_section: the properties outside every [section], in order.
IsGeneral(l) == l.section = GeneralSection

\* Mutant of general_section: the properties of every section are merged.
AllSections(lines) == lines

general_section(lines) == SelectSeq(lines, IsGeneral)

\* Mutant of Overlay: the clone of the definition is stored as it is.
OverlayKeepsCurrent(aref, v) == aref

\* Mutant of Overlay: the value that is replaced is kept as the default.
OverlaySavesPrevious(aref, v) == [aref EXCEPT !.default = aref.current, !.current = v]

\* `let mut a = aref.clone(); a.current = v.to_string();`
Overlay(aref, v) == [aref EXCEPT !.current = v]

\* Mutant of UpdateStep: a key without a definition gets an entry as well.
UpdateStepKeepsUnknown(h, defn, k, v) ==
    IF k \in DOMAIN defn
    THEN Insert(h, k, Overlay(defn[k], v))
    ELSE Insert(h, k, [NullAttribute EXCEPT !.current = v])

\* One iteration of the loop of Cfg::update_cfg_from_defn: a property whose
\* key is defined is inserted, any other is only reported.
UpdateStep(h, defn, k, v) ==
    IF k \in DOMAIN defn
    THEN Insert(h, k, Overlay(defn[k], v))
    ELSE h

\* The loop of Cfg::update_cfg_from_defn over the properties, in file order.
RECURSIVE UpdateLoop(_, _, _)
UpdateLoop(h, defn, props) ==
    IF props = << >>
    THEN h
    ELSE UpdateLoop(UpdateStep(h, defn, Head(props).key, Head(props).value),
                    defn, Tail(props))

\* Mutant of UpdateCfgFromDefn: a missing INI file is taken as an empty one
\* and the definitions are installed with their own current values.
UpdateCfgMissingIsEmpty(old, defn, file) ==
    IF ~file.exists
    THEN [result |-> "Ok", cfg |-> SomeCfg(defn)]
    ELSE IF ~file.parses
    THEN [result |-> "Ini", cfg |-> old]
    ELSE [result |-> "Ok",
          cfg |-> SomeCfg(UpdateLoop(EmptyHash, defn, general_section(file.lines)))]

\* Mutant of UpdateCfgFromDefn: self.cfg is set to the new, empty ConfigHash
\* before the INI file is read.
UpdateCfgClearsFirst(old, defn, file) ==
    IF ~file.exists \/ ~file.parses
    THEN [result |-> "Ini", cfg |-> SomeCfg(EmptyHash)]
    ELSE [result |-> "Ok",
          cfg |-> SomeCfg(UpdateLoop(EmptyHash, defn, general_section(file.lines)))]

\* Cfg::update_cfg_from_defn: a record [result, cfg] with the new self.cfg.
UpdateCfgFromDefn(old, defn, file) ==
    IF ~file.exists \/ ~file.parses
    THEN [result |-> "Ini", cfg |-> old]
    ELSE [result |-> "Ok",
          cfg |-> SomeCfg(UpdateLoop(EmptyHash, defn, general_section(file.lines)))]

\* Cfg::load_configuration: a record [result, arg, decoded, cfg]; `?` returns
\* the error of read_defn_file before update_cfg_from_defn is called.
LoadConfigurationResult(old, def_path, dfile, cfile) ==
    LET r == ReadDefnFile(def_path, dfile)
    IN  IF r.result # "Ok"
        THEN [result |-> r.result, arg |-> r.arg, decoded |-> r.decoded,
              cfg |-> old]
        ELSE LET u == UpdateCfgFromDefn(old, r.hash, cfile)
             IN  [result |-> u.result, arg |-> "", decoded |-> r.decoded,
                  cfg |-> u.cfg]

\* Cfg::read_attribute
ReadAttributeResult(c, key) ==
    IF c.some
    THEN IF key \in DOMAIN c.val THEN SomeAttr(c.val[key]) ELSE NoneAttr
    ELSE NoneAttr

\* Mutant of WriteAttributeResult: the store is rebuilt around the one key.
WriteAttributeReplaces(c, key, value) ==
    IF c.some
    THEN [result |-> "Ok", cfg |-> SomeCfg(Insert(EmptyHash, key, value))]
    ELSE [result |-> "Cfg", cfg |-> c]

\* Mutant of WriteAttributeResult: a store that is None is created.
WriteAttributeCreates(c, key, value) ==
    [result |-> "Ok", cfg |-> SomeCfg(Insert(c.val, key, value))]

\* Mutant of WriteAttributeResult: only an entry that exists is overwritten.
WriteAttributeExisting(c, key, value) ==
    IF c.some
    THEN [result |-> "Ok",
          cfg |-> IF key \in DOMAIN c.val
                  THEN SomeCfg(Insert(c.val, key, value))
                  ELSE c]
    ELSE [result |-> "Cfg", cfg |-> c]

\* Cfg::write_attribute: a record [result, cfg].
WriteAttributeResult(c, key, value) ==
    IF c.some
    THEN [result |-> "Ok", cfg |-> SomeCfg(Insert(c.val, key, value))]
    ELSE [result |-> "Cfg", cfg |-> c]

\* Mutant of AttributesWithActionResult: the test of the filter is inverted.
AttributesWithOtherAction(c, action) ==
    IF c.some
    THEN [k \in {x \in DOMAIN c.val : c.val[x].action # action} |-> c.val[k]]
    ELSE EmptyHash

\* Cfg::attributes_with_action
AttributesWithActionResult(c, action) ==
    IF c.some
    THEN [k \in {x \in DOMAIN c.val : c.val[x].action = action} |-> c.val[k]]
    ELSE EmptyHash

\* Ini::set_to: replaces the value of the key in the section, else appends.
IniSetTo(lines, section, key, value) ==
    IF \E i \in DOMAIN lines : lines[i].section = section /\ lines[i].key = key
    THEN [i \in DOMAIN lines |->
            IF lines[i].section = section /\ lines[i].key = key
            THEN [lines[i] EXCEPT !.value = value]
            ELSE lines[i]]
    ELSE Append(lines, [section |-> section, key |-> key, value |-> value])

\* The orders in which a HashMap of the keys S may be iterated.
Orders(S) ==
    {o \in [1..Cardinality(S) -> S] : \A i, j \in DOMAIN o : o[i] = o[j] => i = j}

\* Mutant of FillStep: the default value is written, not the current one.
FillStepDefault(ini, h, k) == IniSetTo(ini, GeneralSection, k, h[k].default)

\* `ini.set_to(None::<String>, k.clone(), v.current.clone())`
FillStep(ini, h, k) == IniSetTo(ini, GeneralSection, k, h[k].current)

\* The loop of Cfg::write_cfg_file that fills the Ini, for one iteration order.
RECURSIVE FillIni(_, _, _)
FillIni(ini, h, order) ==
    IF order = << >>
    THEN ini
    ELSE FillIni(FillStep(ini, h, Head(order)), h, Tail(order))

\* Option<bool>
OptionBool == {"None", "Some(true)", "Some(false)"}

\* Mutant of DoBackup: a backup is taken unless it is declined.
DoBackupUnlessDeclined(make_backup) == make_backup # "Some(false)"

\* do_backup of Cfg::write_cfg_file
DoBackup(make_backup) == make_backup = "Some(true)"

\* ------------------------------------------------------------------ state

VARIABLES
    cfg,        \* Cfg.cfg: Option<ConfigHash>
    defFile,    \* the file at def_path
    cfgFile,    \* the file at cfg_path
    last        \* the latest call: its arguments, result and effects

vars == << cfg, defFile, cfgFile, last >>

\* The record of a call, before its fields are filled in.
Blank ==
    [op |-> "new", result |-> "Ok", arg |-> "", path |-> "", key |-> 0,
     value |-> NullAttribute, action |-> "", attr |-> NoneAttr,
     hash |-> EmptyHash, decoded |-> FALSE, make_backup |-> "None",
     events |-> << >>, written |-> << >>]

\* Attribute key -> metadata used by the fixtures.
MetaOf(k) == MetaSeq[((k - 1) % Len(MetaSeq)) + 1]

DefnAttr(k) == MkAttribute(MetaOf(k), MetaOf(k).default)

\* The fixtures written by setup_file in the tests: every key defined, all
\* but the last key defined, and one entry without its prompt.
FullDefn == DefnOf([k \in Keys |-> DefnAttr(k)])
PartialDefn == DefnOf([k \in Keys \ {NumKeys} |-> DefnAttr(k)])
BadDefn == DefnOf([k \in Keys |-> IF k = 1 THEN DropField(DefnAttr(k), "prompt")
                                          ELSE DefnAttr(k)])

DefnFixtures == {MissingDefn, BadDefn, FullDefn, PartialDefn}

AllKeysCfg ==
    CfgOf([i \in 1..NumKeys |->
            [section |-> GeneralSection, key |-> i, value |-> "101"]])
FirstKeyCfg ==
    CfgOf(<< [section |-> GeneralSection, key |-> 1, value |-> "101"],
             [section |-> "network", key |-> NumKeys, value |-> "100"] >>)

CfgFixtures == {MissingCfg, AllKeysCfg, FirstKeyCfg}

\* Cfg::new, with the two files as some fixture.
Init ==
    /\ cfg = NoneCfg
    /\ defFile \in DefnFixtures
    /\ cfgFile \in CfgFixtures
    /\ last = Blank

\* Cfg::new, with the two files any files within the bounds.
InitLoad ==
    /\ cfg = NoneCfg
    /\ defFile \in DefnFiles
    /\ cfgFile \in CfgFiles
    /\ last = Blank

\* ---------------------------------------------------------------- actions

\* setup_file / teardown_file of the tests: the files are replaced.
SetupFiles ==
    /\ \/ \E d \in DefnFixtures \ {defFile} :
            defFile' = d /\ cfgFile' = cfgFile
       \/ \E c \in CfgFixtures \ {cfgFile} :
            cfgFile' = c /\ defFile' = defFile
    /\ last' = [Blank EXCEPT !.op = "setup_file"]
    /\ UNCHANGED cfg

LoadConfiguration ==
    \E def_path \in DefPaths :
        LET r == LoadConfigurationResult(cfg, def_path, defFile, cfgFile)
        IN  /\ cfg' = r.cfg
            /\ last' = [Blank EXCEPT !.op = "load_configuration",
                                     !.path = def_path,
                                     !.result = r.result, !.arg = r.arg,
                                     !.decoded = r.decoded]
            /\ UNCHANGED << defFile, cfgFile >>

ReadAttribute ==
    \E key \in Keys :
        /\ last' = [Blank EXCEPT !.op = "read_attribute", !.key = key,
                                 !.attr = ReadAttributeResult(cfg, key)]
        /\ UNCHANGED << cfg, defFile, cfgFile >>

WriteAttribute ==
    \E key \in Keys, value \in Attribute :
        LET r == WriteAttributeResult(cfg, key, value)
        IN  /\ cfg' = r.cfg
            /\ last' = [Blank EXCEPT !.op = "write_attribute", !.key = key,
                                     !.value = value, !.result = r.result]
            /\ UNCHANGED << defFile, cfgFile >>

AttributesWithAction ==
    \E action \in ActionBehaviour :
        /\ last' = [Blank EXCEPT !.op = "attributes_with_action",
                                 !.action = action,
                                 !.hash = AttributesWithActionResult(cfg, action)]
        /\ UNCHANGED << cfg, defFile, cfgFile >>

\* A write_cfg_file that takes a store of None for an empty one, and so backs
\* up and writes an empty file.
WriteCfgFileOnNone ==
    \E make_backup \in OptionBool :
        /\ \E write_ok \in BOOLEAN :
           \E backup_ok \in IF DoBackup(make_backup) THEN BOOLEAN ELSE {TRUE} :
               LET hash == IF cfg.some THEN cfg.val ELSE EmptyHash
                   b == IF DoBackup(make_backup)
                        THEN << IF backup_ok THEN "backup_ok" ELSE "backup_err" >>
                        ELSE << >>
                   w == << IF write_ok THEN "write_ok" ELSE "write_err" >>
               IN  \E order \in IF write_ok THEN Orders(DOMAIN hash) ELSE {<< >>} :
                       last' = [Blank EXCEPT
                                  !.op = "write_cfg_file",
                                  !.make_backup = make_backup,
                                  !.events = b \o w,
                                  !.written = IF write_ok
                                              THEN FillIni(<< >>, hash, order)
                                              ELSE << >>,
                                  !.result = IF write_ok THEN "Ok" ELSE "Io"]
        /\ UNCHANGED << cfg, defFile, cfgFile >>

\* Cfg::write_cfg_file.  backup() and Ini::write_to_file may each fail; the
\* events are the calls made on the destination path, in order, and
\* `written` is what a successful write_to_file stored there.
WriteCfgFile ==
    \E make_backup \in OptionBool :
        /\ IF cfg.some
           THEN \E write_ok \in BOOLEAN :
                \E backup_ok \in IF DoBackup(make_backup) THEN BOOLEAN ELSE {TRUE},
                   order \in IF write_ok THEN Orders(DOMAIN cfg.val)
                                         ELSE {<< >>} :
                    LET ini == FillIni(<< >>, cfg.val, order)  \* Ini::new
                        b == IF DoBackup(make_backup)
                             THEN << IF backup_ok THEN "backup_ok" ELSE "backup_err" >>
                             ELSE << >>
                        w == << IF write_ok THEN "write_ok" ELSE "write_err" >>
                    IN  last' = [Blank EXCEPT
                                   !.op = "write_cfg_file",
                                   !.make_backup = make_backup,
                                   !.events = b \o w,
                                   !.written = IF write_ok THEN ini ELSE << >>,
                                   !.result = IF write_ok THEN "Ok" ELSE "Io"]
           ELSE last' = [Blank EXCEPT !.op = "write_cfg_file",
                                      !.make_backup = make_backup]
        /\ UNCHANGED << cfg, defFile, cfgFile >>

Next ==
    \/ SetupFiles
    \/ LoadConfiguration
    \/ ReadAttribute
    \/ WriteAttribute
    \/ AttributesWithAction
    \/ WriteCfgFile

Spec == Init /\ [][Next]_vars

NextLoad == LoadConfiguration

SpecLoad == InitLoad /\ [][NextLoad]_vars

\* The fixtures and, besides them, a definition file that is not JSON and an
\* INI file that does not parse: every way in which a file can fail to load.
AnyDefnFixtures == DefnFixtures \cup {MalformedDefn}
AnyCfgFixtures == CfgFixtures \cup {GarbledCfg}

\* Cfg::new, with the two files as some fixture, failing or not.
InitReload ==
    /\ cfg = NoneCfg
    /\ defFile \in AnyDefnFixtures
    /\ cfgFile \in AnyCfgFixtures
    /\ last = Blank

\* setup_file / teardown_file of the tests, over the failing files as well.
SetupAnyFiles ==
    /\ \/ \E d \in AnyDefnFixtures \ {defFile} :
            defFile' = d /\ cfgFile' = cfgFile
       \/ \E c \in AnyCfgFixtures \ {cfgFile} :
            cfgFile' = c /\ defFile' = defFile
    /\ last' = [Blank EXCEPT !.op = "setup_file"]
    /\ UNCHANGED cfg

\* Loads of one Cfg, repeated over files that change and stores that were
\* written to in between.
NextReload ==
    \/ SetupAnyFiles
    \/ LoadConfiguration
    \/ WriteAttribute

SpecReload == InitReload /\ [][NextReload]_vars

\* ------------------------------------------------------------- properties

\* The latest call was load_configuration / it returned Ok(()).
Loaded == last.op = "load_configuration"
LoadedOk == Loaded /\ last.result = "Ok"

\* The definition document is well-formed JSON that fails the schema.
FailsSchema ==
    /\ defFile.exists
    /\ defFile.wellformed
    /\ \E k \in DOMAIN defFile.json :
          \/ DOMAIN defFile.json[k] # Fields
          \/ defFile.json[k]["action"] \notin ActionBehaviour

\* The definition document can be read and conforms to the schema.
GoodDefn == defFile.exists /\ defFile.wellformed /\ ~FailsSchema

\* The properties of the general section of the INI file, and their keys.
Props == general_section(cfgFile.lines)
PropKeys == {Props[i].key : i \in DOMAIN Props}

\* The value the INI file gives to k: that of the last k=value line.
LastValue(k) ==
    LET i == CHOOSE n \in DOMAIN Props :
                /\ Props[n].key = k
                /\ \A m \in DOMAIN Props : Props[m].key = k => m <= n
    IN  Props[i].value

\* The properties of the general section whose key is defined.
IsDefined(l) == l.key \in DOMAIN defFile.json
DefinedProps == SelectSeq(Props, IsDefined)

\* C1: after a successful load_configuration the store holds every key of the
\* definition document, and a key of the document that is not in the general
\* section of the INI file has the `current` of the document.
C1_DefinedKeysAllLoaded ==
    LoadedOk =>
        \A k \in DOMAIN defFile.json :
            /\ k \in DOMAIN cfg.val
            /\ k \notin PropKeys => cfg.val[k].current = defFile.json[k]["current"]

\* C2: after a successful load_configuration, every key that is both in the
\* definition document and in the general section of the INI file has the
\* value of the INI file as `current` and every other field as in the document.
C2_CurrentOverlaid ==
    LoadedOk =>
        \A k \in (DOMAIN defFile.json) \cap PropKeys :
            /\ k \in DOMAIN cfg.val
            /\ cfg.val[k].current = LastValue(k)
            /\ \A f \in Fields \ {"current"} : cfg.val[k][f] = defFile.json[k][f]

\* A load that overlaid a value different from the document's `current`.
C2_Witness ==
    /\ LoadedOk
    /\ \E k \in (DOMAIN defFile.json) \cap PropKeys :
          /\ k \in DOMAIN cfg.val
          /\ cfg.val[k].current # defFile.json[k]["current"]

\* C3 as stated: once the store is loaded, no operation removes a key from it.
C3_KeysNeverRemoved ==
    [][cfg.some => (cfg'.some /\ DOMAIN cfg.val \subseteq DOMAIN cfg'.val)]_vars

\* C3 as amended: every operation other than a load_configuration that
\* succeeds keeps the keys of a loaded store (a successful load_configuration
\* replaces the store by the one built from the two files).
C3_KeysKeptExceptByLoad ==
    [][(cfg.some /\ ~(last'.op = "load_configuration" /\ last'.result = "Ok"))
          => (cfg'.some /\ DOMAIN cfg.val \subseteq DOMAIN cfg'.val)]_vars

\* A load_configuration that failed on a store that holds every key.
C3_Witness ==
    /\ Loaded
    /\ last.result # "Ok"
    /\ cfg.some
    /\ DOMAIN cfg.val = Keys

\* C4: write_attribute on a Cfg whose store is None returns CfgError::Cfg and
\* leaves the store None.
C4_WriteUninitialisedFails ==
    [][(last'.op = "write_attribute" /\ ~cfg.some)
          => (last'.result = "Cfg" /\ cfg' = NoneCfg)]_vars

\* write_attribute has returned CfgError::Cfg.
C4_Witness ==
    /\ last.op = "write_attribute"
    /\ last.result = "Cfg"
    /\ last.value \in Attribute
    /\ ~cfg.some

\* C5: write_attribute(key, value) on a loaded store returns Ok for any key;
\* afterwards read_attribute(key) returns `value` in all six fields and every
\* other key has the entry it had (or is absent as it was).
C5_WriteThenRead ==
    [][(last'.op = "write_attribute" /\ cfg.some)
          => /\ last'.result = "Ok"
             /\ cfg'.some
             /\ ReadAttributeResult(cfg', last'.key).some
             /\ \A f \in Fields :
                   ReadAttributeResult(cfg', last'.key).val[f] = last'.value[f]
             /\ \A k \in Keys \ {last'.key} :
                   /\ k \in DOMAIN cfg'.val <=> k \in DOMAIN cfg.val
                   /\ k \in DOMAIN cfg.val => cfg'.val[k] = cfg.val[k]]_vars

\* write_attribute has succeeded on a store that holds another key as well.
C5_Witness ==
    /\ last.op = "write_attribute"
    /\ last.result = "Ok"
    /\ cfg.some
    /\ cfg.val[last.key] = last.value
    /\ \E k \in DOMAIN cfg.val : k # last.key

\* C6: attributes_with_action(c) returns exactly the entries of the store
\* whose action is c, unchanged, and leaves the store as it was; the results
\* for the three actions are pairwise disjoint and together hold every key of
\* the store; on a store that is None the result is empty.
C6_FilterByAction ==
    [][last'.op = "attributes_with_action"
          => /\ cfg' = cfg
             /\ DOMAIN last'.hash =
                   {k \in DOMAIN cfg.val : cfg.val[k].action = last'.action}
             /\ \A k \in DOMAIN last'.hash : last'.hash[k] = cfg.val[k]
             /\ ~cfg.some => last'.hash = EmptyHash
             /\ \A a, b \in ActionBehaviour :
                   a # b => (DOMAIN AttributesWithActionResult(cfg, a))
                               \cap (DOMAIN AttributesWithActionResult(cfg, b)) = {}
             /\ UNION {DOMAIN AttributesWithActionResult(cfg, a) :
                         a \in ActionBehaviour} = DOMAIN cfg.val]_vars

\* attributes_with_action has returned some entries of a store and left
\* others out.
C6_Witness ==
    /\ last.op = "attributes_with_action"
    /\ cfg.some
    /\ last.hash # EmptyHash
    /\ DOMAIN last.hash # DOMAIN cfg.val

\* C7 as stated: a definition document that fails the schema is not decoded;
\* load_configuration returns CfgError::Schema carrying def_path and the store
\* is left as it was.
C7_SchemaErrorCarriesPath ==
    [][(last'.op = "load_configuration" /\ FailsSchema)
          => /\ ~last'.decoded
             /\ last'.result = "Schema"
             /\ last'.arg = last'.path
             /\ cfg' = cfg]_vars

\* C7 as amended: the same, the error carrying def_path when def_path is
\* valid UTF-8 and the text "(non-utf8 path" when it is not.
C7_InvalidNeverDecoded ==
    [][(last'.op = "load_configuration" /\ FailsSchema)
          => /\ ~last'.decoded
             /\ last'.result = "Schema"
             /\ last'.arg = IF last'.path = "<non-utf8>"
                            THEN "(non-utf8 path"
                            ELSE last'.path
             /\ cfg' = cfg]_vars

\* load_configuration has rejected a document given under a non-UTF-8 path.
C7_Witness ==
    /\ Loaded
    /\ FailsSchema
    /\ last.result = "Schema"
    /\ last.path = "<non-utf8>"

\* C8: a key of the general section that has no definition does not make
\* load_configuration fail; the store gets no entry for it and is the store
\* that the INI file without the lines of undefined keys gives.
C8_UnknownKeysTolerated ==
    (Loaded /\ GoodDefn /\ cfgFile.exists /\ cfgFile.parses
        /\ PropKeys \ DOMAIN defFile.json # {})
    => /\ last.result = "Ok"
       /\ cfg.some
       /\ (PropKeys \ DOMAIN defFile.json) \cap DOMAIN cfg.val = {}
       /\ cfg.val = UpdateLoop(EmptyHash, FromValue(defFile.json), DefinedProps)

\* A load from an INI file with a defined and an undefined key.
C8_Witness ==
    /\ LoadedOk
    /\ PropKeys \ DOMAIN defFile.json # {}
    /\ PropKeys \cap DOMAIN defFile.json # {}
    /\ DOMAIN cfg.val # {}

C10_WritesCurrentValues ==
    [][(last'.op = "write_cfg_file" /\ cfg.some /\ last'.result = "Ok")
          => LET w == last'.written
             IN  /\ cfg' = cfg
                 /\ Len(w) = Cardinality(DOMAIN cfg.val)
                 /\ \A k \in DOMAIN cfg.val :
                       \E i \in DOMAIN w :
                          /\ w[i].key = k
                          /\ \A j \in DOMAIN w : w[j].key = k => j = i
                 /\ \A i \in DOMAIN w :
                       /\ DOMAIN w[i] = {"section", "key", "value"}
                       /\ w[i].section = GeneralSection
                       /\ w[i].key \in DOMAIN cfg.val
                       /\ w[i].value = cfg.val[w[i].key].current]_vars

\* write_cfg_file has written a store one entry of which was put there by
\* write_attribute with a current value other than its default.
C10_Witness ==
    /\ last.op = "write_cfg_file"
    /\ last.result = "Ok"
    /\ cfg.some
    /\ Len(last.written) = NumKeys
    /\ \E k \in DOMAIN cfg.val :
          /\ cfg.val[k].prompt # MetaOf(k).prompt
          /\ cfg.val[k].current # cfg.val[k].default

\* The calls of backup() in a sequence of events.
IsBackup(e) == e \in {"backup_ok", "backup_err"}

\* C11: write_cfg_file on a loaded store calls backup() only when make_backup
\* is Some(true), and then before the destination is written; whether the
\* backup succeeds or fails, write_to_file is called once, as the last call,
\* and the result is Ok exactly when that write succeeds.
C11_BackupOnlyOnRequest ==
    [][(last'.op = "write_cfg_file" /\ cfg.some)
          => LET e == last'.events
                 n == Len(e)
             IN  /\ n >= 1
                 /\ e[n] \in {"write_ok", "write_err"}
                 /\ \A i \in 1..(n - 1) : IsBackup(e[i])
                 /\ (n - 1) = (IF last'.make_backup = "Some(true)" THEN 1 ELSE 0)
                 /\ last'.result = "Ok" <=> e[n] = "write_ok"
                 /\ last'.result \in {"Ok", "Io"}]_vars

\* write_cfg_file has returned Ok after a backup that failed.
C11_Witness ==
    /\ last.op = "write_cfg_file"
    /\ cfg.some
    /\ last.make_backup = "Some(true)"
    /\ last.events = << "backup_err", "write_ok" >>
    /\ last.result = "Ok"

\* The lines of the INI file that give a value to k outside every [section],
\* and those that do so under a [section] header.
GeneralLinesOf(k) ==
    {i \in DOMAIN cfgFile.lines :
        cfgFile.lines[i].key = k /\ cfgFile.lines[i].section = GeneralSection}
NamedLinesOf(k) ==
    {i \in DOMAIN cfgFile.lines :
        cfgFile.lines[i].key = k /\ cfgFile.lines[i].section # GeneralSection}

\* C12: after a successful load_configuration a key=value line under a
\* [section] header has no effect: a key without a line in the general
\* section has no entry, defined or not, and the `current` of every entry is
\* the value of the last line of its key in the general section.
C12_NamedSectionsIgnored ==
    LoadedOk =>
        \A k \in Keys :
            /\ GeneralLinesOf(k) = {} => k \notin DOMAIN cfg.val
            /\ k \in DOMAIN cfg.val =>
                  \E i \in GeneralLinesOf(k) :
                     /\ \A j \in GeneralLinesOf(k) : j <= i
                     /\ cfg.val[k].current = cfgFile.lines[i].value

\* A load from an INI file that names one defined key in the general section
\* and another defined key only under [network].
C12_Witness ==
    /\ LoadedOk
    /\ DOMAIN cfg.val # {}
    /\ \E k \in DOMAIN defFile.json :
          NamedLinesOf(k) # {} /\ GeneralLinesOf(k) = {} /\ k \notin DOMAIN cfg.val

\* C13: reconciliation is idempotent.  After a successful load_configuration,
\* update_cfg_from_defn applied to the entries of the new store and the same
\* INI file gives the same store; and a load_configuration that follows a
\* successful one, with the two files as they were, leaves the store as it is.
C13_ReconcileIdempotent ==
    [][(last'.op = "load_configuration" /\ last'.result = "Ok")
          => /\ UpdateCfgFromDefn(cfg', cfg'.val, cfgFile) = [result |-> "Ok", cfg |-> cfg']
             /\ LoadedOk => cfg' = cfg]_vars

\* A load that overlaid a new value on an entry whose key the INI file gives
\* twice.
C13_Witness ==
    /\ LoadedOk
    /\ Len(Props) > Cardinality(PropKeys)
    /\ \E k \in DOMAIN cfg.val : cfg.val[k].current # defFile.json[k]["current"]

\* C14: a load_configuration that fails, at whichever step, leaves the store
\* exactly as it was: None stays None and a loaded store keeps its entries.
C14_FailedLoadKeepsStore ==
    [][(last'.op = "load_configuration" /\ last'.result # "Ok") => cfg' = cfg]_vars

\* load_configuration has failed on an INI file that does not parse, after
\* the definitions were read, on a store that holds every key.
C14_Witness ==
    /\ Loaded
    /\ last.result = "Ini"
    /\ cfgFile = GarbledCfg
    /\ cfg.some
    /\ DOMAIN cfg.val = Keys

\* C15: write_cfg_file on a Cfg whose store was never loaded returns Ok(())
\* whatever make_backup is, calls neither backup nor write_to_file, so that the
\* destination is neither written nor truncated, and leaves the store None; it
\* does not report the not-initialised error of write_attribute.
C15_WriteUninitialisedIsNoop ==
    [][(last'.op = "write_cfg_file" /\ ~cfg.some)
          => /\ last'.result = "Ok"
             /\ last'.events = << >>
             /\ last'.written = << >>
             /\ cfg' = NoneCfg]_vars

\* write_cfg_file has returned on a store of None, asked for a backup, where
\* write_attribute on the same store fails.
C15_Witness ==
    /\ last.op = "write_cfg_file"
    /\ ~cfg.some
    /\ last.make_backup = "Some(true)"
    /\ last.result = "Ok"
    /\ last.events = << >>
    /\ \A k \in Keys, a \in Attribute : WriteAttributeResult(cfg, k, a).result = "Cfg"

====
